---- MODULE Spec2Model ----
(***************************************************************************)
(* Model of the session logger of lib/session-logger.ts                    *)
(* (createSessionLogger): the closure state of one logger instance, the    *)
(* sessions directory it appends to, and the public calls log(),           *)
(* logUserInput() and close(), driven by an arbitrary caller.  A new       *)
(* logger instance (process restart, or a new request of the web route)    *)
(* starts from the constructor's state and shares only the directory.      *)
(* The command-line driver of app/api/chat/agent.ts, which owns one logger *)
(* for the run of the process, is modelled beside it, and so is the chat   *)
(* interface of components/chat-interface.tsx, which reads the record      *)
(* stream of the /api/chat route.                                          *)
(*                                                                         *)
(* Conventions                                                             *)
(*  - A file is the sequence of its lines; a line is the JSON value that   *)
(*    JSON.parse returns for it.                                           *)
(*  - A missing (undefined) numeric field of an SDK message is Undefined.  *)
(*  - Money is counted in units of 0.001 USD so that sums are integers.    *)
(*  - A session id is its first eight characters (p8) and the rest; ids    *)
(*    are the SDK's UUIDs, so p8 is eight hexadecimal digits.              *)
(*  - A file name is the sequence of its parts,                            *)
(*    <<date, "_", time, "_", p8, ".jsonl">>; the empty path is << >>.     *)
(*  - getTimestamp() is the constant Now: wall-clock values are not        *)
(*    compared anywhere in the logger.                                     *)
(*  - An exception that leaves a public call is recorded in the history    *)
(*    (lastCall.ok = FALSE); the program state is the one at the throw.    *)
(***************************************************************************)
EXTENDS Integers, Sequences, FiniteSets, TLC

(***************************************************************************)
(* Bounds of the model                                                     *)
(*   MaxInstances      logger instances created in a run                   *)
(*   MaxLines          lines of a session file; also the number of         *)
(*                     logUserInput() calls and of result events of one    *)
(*                     instance                                            *)
(*   MaxMsgs           sub-events in the buffer of the open exchange       *)
(*   MaxCalls          calls of a run of Spec (any caller)                 *)
(*   MaxProtocolCalls  calls of a run of SpecProtocol (driver's order)     *)
(*   MaxFaultCalls     calls of a run of SpecFaults (any caller, ignored   *)
(*                     events, failing appends)                            *)
(*   MaxCliCalls       logger calls of a run of the command-line driver    *)
(*   MaxFoundCalls     exchanges and close() calls of the earlier run that *)
(*                     left the file a run of SpecResume starts from       *)
(*   MaxResumeCalls    calls of a run of SpecResume (resuming instance)    *)
(*   MaxSessionCalls   calls of a run of SpecSessions (several sessions    *)
(*                     in one sessions directory)                          *)
(*   MaxBlockCalls     calls of a run of SpecBlocks (events with           *)
(*                     incomplete content blocks)                          *)
(*   MaxRequests       requests the chat interface sends                   *)
(*   MaxRecords        records the stream of one request delivers          *)
(***************************************************************************)
MaxInstances == 2
MaxLines == 4
MaxMsgs == 2
MaxCalls == 6
MaxProtocolCalls == 8
MaxFaultCalls == 5
MaxCliCalls == 6
MaxFoundCalls == 2
MaxResumeCalls == 5
MaxSessionCalls == 5
MaxBlockCalls == 5
MaxRequests == 2
MaxRecords == 3

(***************************************************************************)
(* Values                                                                  *)
(***************************************************************************)
Undefined == -1
Now == "ts"
NoPath == << >>
NoId == [p8 |-> "", rest |-> ""]
ToolNames == {"Read", "Write"}

idA == [p8 |-> "abc12345", rest |-> "-1"]
SessionIds == {idA}

\* A session with another prefix, and one that shares idA's prefix
idB == [p8 |-> "def67890", rest |-> "-2"]
idC == [p8 |-> "abc12345", rest |-> "-3"]
AllSessionIds == {idA, idB, idC}

\* new Date().toISOString().replace(/[-:]/g, "").replace("T", "_")
\* .substring(0, 15): the wall clock to the second
FirstStamp == <<"20251107", "_", "084532">>
FileStamps == {FirstStamp, <<"20251107", "_", "084533">>}

InitMessage(id) ==
    [type |-> "system", subtype |-> "init", session_id |-> id,
     model |-> "m", cwd |-> "/w", tools |-> <<"Read", "Write">>,
     permissionMode |-> "default"]
InitMsgs == {InitMessage(id) : id \in SessionIds}

UserTexts == {"hello", "again"}

NoUsage ==
    [input_tokens |-> Undefined, output_tokens |-> Undefined,
     cache_creation_input_tokens |-> Undefined,
     cache_read_input_tokens |-> Undefined]

\* The completion event of the scenario of the specification
\* (duration_api_ms and the cache counters are absent).
resultHello ==
    [type |-> "result", num_turns |-> 1, duration_ms |-> 100,
     duration_api_ms |-> Undefined, total_cost_usd |-> 1,
     usage |-> [NoUsage EXCEPT !.input_tokens = 5, !.output_tokens = 10]]
resultFull ==
    [type |-> "result", num_turns |-> 2, duration_ms |-> 250,
     duration_api_ms |-> 200, total_cost_usd |-> 3,
     usage |-> [input_tokens |-> 7, output_tokens |-> 20,
                cache_creation_input_tokens |-> 30,
                cache_read_input_tokens |-> 40]]
ResultMsgs == {resultHello, resultFull}

textBlock == [type |-> "text", text |-> "hi"]
toolUseBlock(n) == [type |-> "tool_use", id |-> "t1", name |-> n, input |-> "in"]
toolResultBlock == [type |-> "tool_result", tool_use_id |-> "t1",
                    is_error |-> FALSE, content |-> "out"]

AssistantMsgs ==
    { [type |-> "assistant", content |-> <<textBlock>>],
      [type |-> "assistant", content |-> <<toolUseBlock("Read")>>],
      [type |-> "assistant", content |-> <<toolUseBlock("Write"), textBlock>>] }
UserMsgs == { [type |-> "user", content |-> <<toolResultBlock>>] }

\* Events outside the recognized set: null, an object without a type, a
\* system event whose subtype is not init, and an unknown type.
NullMessage == [null |-> TRUE]
UntypedMessage == [session_id |-> idA]
OtherMsgs ==
    { NullMessage,
      UntypedMessage,
      [type |-> "system", subtype |-> "compact_boundary", session_id |-> idA],
      [type |-> "stream_event", session_id |-> idA] }

(***************************************************************************)
(* State                                                                   *)
(***************************************************************************)
VARIABLES
    files,      \* the sessions directory: file name -> sequence of lines
    logger,     \* the closure state of the current logger instance
    hist,       \* history of the calls made (not read by the logger)
    cli,        \* the command-line driver: where the process is
    ui          \* the chat interface: React state and the request under way

vars == <<files, logger, hist, cli, ui>>

(***************************************************************************)
(* JavaScript helpers                                                      *)
(***************************************************************************)
\* x || 0 for a number-or-undefined x
OrZero(x) == IF x = Undefined \/ x = 0 THEN 0 ELSE x

\* message.f || d for a field that may be absent
FieldOr(m, f, d) == IF f \in DOMAIN m THEN m[f] ELSE d

RECURSIVE SumSeq(_)
SumSeq(s) == IF s = << >> THEN 0 ELSE Head(s) + SumSeq(Tail(s))

MaxOf(S) == IF S = {} THEN 0 ELSE CHOOSE x \in S : \A y \in S : y <= x

\* JSON.stringify of the stats object: a field whose value is undefined is
\* omitted from the line.
StringifyStats(stats) ==
    IF stats.duration_api_ms = Undefined
    THEN [num_turns |-> stats.num_turns, duration_ms |-> stats.duration_ms,
          tokens_in |-> stats.tokens_in, tokens_out |-> stats.tokens_out,
          cache_creation |-> stats.cache_creation,
          cache_read |-> stats.cache_read, cost_usd |-> stats.cost_usd]
    ELSE stats

\* JSON.stringify(data) of a record written by the logger.
JSONStringify(data) ==
    IF data.type = "exchange"
    THEN [data EXCEPT !.stats = StringifyStats(data.stats)]
    ELSE data

\* JSON.parse succeeds on a line written whole, and throws on the empty
\* string, on a line cut short by a crash during the write (partial: it
\* has no line end yet) and on such a line with a later record appended to
\* it (corrupt).
EmptyLine == [type |-> "<empty>"]
partialLine == [type |-> "<partial>"]
corruptLine == [type |-> "<corrupt>"]
ParseOK(line) == line.type \in {"session_start", "exchange", "session_end"}

\* content.trim().split("\n")
ReadLines(fs, path) == IF fs[path] = << >> THEN <<EmptyLine>> ELSE fs[path]

(***************************************************************************)
(* The logger's private functions                                          *)
(***************************************************************************)
\* fs.appendFileSync(path, line + "\n"): the file is created when missing;
\* text appended after a partial last line continues that line.
appendFileSync(fs, path, line) ==
    IF path \notin DOMAIN fs
    THEN [p \in DOMAIN fs \cup {path} |-> IF p = path THEN <<line>> ELSE fs[p]]
    ELSE IF fs[path] # << >> /\ fs[path][Len(fs[path])] = partialLine
    THEN [fs EXCEPT ![path] = [@ EXCEPT ![Len(@)] = corruptLine]]
    ELSE [fs EXCEPT ![path] = Append(@, line)]

\* Variant of appendLine without the guard on the active file.
appendLineUnguarded(fs, path, data) ==
    appendFileSync(fs, path, JSONStringify(data))

\* appendLine: no active file is a silent no-op.
appendLine(fs, path, data) ==
    IF path = NoPath THEN fs
    ELSE appendFileSync(fs, path, JSONStringify(data))

\* sessionId.substring(0, 8)
sessionIdShort(id) == id.p8

\* `${timestamp}_${sessionIdShort}.jsonl`
fileName(stamp, short) == stamp \o <<"_", short, ".jsonl">>

\* file.endsWith(suffix)
endsWith(name, suffix) ==
    /\ Len(suffix) <= Len(name)
    /\ SubSeq(name, Len(name) - Len(suffix) + 1, Len(name)) = suffix

\* The file a session started at the first instant of the clock writes to
fileOf(id) == fileName(FirstStamp, sessionIdShort(id))

\* Variant of findExistingSessionFile that finds no file.
findNoSessionFile(fs, id) == NoPath

\* findExistingSessionFile: the file whose name ends in _<short>.jsonl, or
\* NoPath (null).
findExistingSessionFile(fs, id) ==
    LET matches == {p \in DOMAIN fs :
                      endsWith(p, <<"_", sessionIdShort(id), ".jsonl">>)}
    IN  IF matches = {} THEN NoPath ELSE CHOOSE p \in matches : TRUE

\* getLastExchangeNumber: the highest truthy ordinal of the exchange
\* lines; 0 when any line fails to parse.
getLastExchangeNumber(fs, path) ==
    LET lines == ReadLines(fs, path) IN
    IF \E i \in 1..Len(lines) : ~ParseOK(lines[i]) THEN 0
    ELSE MaxOf({lines[i].exchange :
                  i \in {j \in 1..Len(lines) : lines[j].type = "exchange"}})

\* Variant of loadPreviousSessionStats that loads nothing.
loadPreviousSessionStatsNothing(lg, fs, path) == lg

\* loadPreviousSessionStats: totals of the last session_end line, scanning
\* from the end; a parse failure on the way abandons the scan.
loadPreviousSessionStats(lg, fs, path) ==
    LET lines == ReadLines(fs, path)
        bad   == {i \in 1..Len(lines) : ~ParseOK(lines[i])}
        ends  == {i \in 1..Len(lines) :
                    ParseOK(lines[i]) /\ lines[i].type = "session_end"}
        last  == MaxOf(ends)
    IN  IF ends = {} \/ (\E i \in bad : i > last) THEN lg
        ELSE LET parsed == lines[last] IN
             [lg EXCEPT
                !.totalDurationMs = OrZero(parsed.total_duration_ms),
                !.totalDurationApiMs = OrZero(parsed.total_duration_api_ms),
                !.totalCostUsd = OrZero(parsed.total_cost_usd),
                !.lastExchangeTokens = parsed.total_tokens,
                !.toolsUsed =
                    [n \in DOMAIN lg.toolsUsed \cup DOMAIN parsed.tools_used |->
                       IF n \in DOMAIN parsed.tools_used
                       THEN parsed.tools_used[n] ELSE lg.toolsUsed[n]]]

\* Variant of removeLastSessionEnd that drops the last line whatever it is.
removeLastSessionEndAlways(fs, path) ==
    IF path = NoPath \/ path \notin DOMAIN fs \/ fs[path] = << >> THEN fs
    ELSE [fs EXCEPT ![path] = SubSeq(@, 1, Len(@) - 1)]

\* Variant of removeLastSessionEnd that also drops a last line that fails
\* to parse.
removeLastSessionEndOrCorrupt(fs, path) ==
    IF path = NoPath \/ path \notin DOMAIN fs \/ fs[path] = << >> THEN fs
    ELSE LET lastLine == fs[path][Len(fs[path])]
         IN  IF ~ParseOK(lastLine) \/ lastLine.type = "session_end"
             THEN [fs EXCEPT ![path] = SubSeq(@, 1, Len(@) - 1)]
             ELSE fs

\* Variant of removeLastSessionEnd that never rewrites the file.
removeLastSessionEndKeepsIt(fs, path) == fs

\* removeLastSessionEnd: rewrite the file without its last line when that
\* line is a session_end.
removeLastSessionEnd(fs, path) ==
    IF path = NoPath \/ path \notin DOMAIN fs THEN fs
    ELSE LET lines == ReadLines(fs, path)
             lastLine == lines[Len(lines)]
         IN  IF ParseOK(lastLine) /\ lastLine.type = "session_end"
             THEN [fs EXCEPT ![path] = SubSeq(lines, 1, Len(lines) - 1)]
             ELSE fs

\* handleSystemMessage (lines 190-194): the session metadata of the init
\* message.
readInitMessage(lg, m) ==
    [lg EXCEPT !.sessionId = FieldOr(m, "session_id", NoId),
               !.sessionModel = FieldOr(m, "model", ""),
               !.sessionCwd = FieldOr(m, "cwd", ""),
               !.sessionTools = FieldOr(m, "tools", << >>),
               !.sessionPermissionMode = FieldOr(m, "permissionMode", "default")]

\* handleSystemMessage (lines 201-209): adopt the existing file.
resumeExistingFile(lg, fs, existingFile) ==
    LET lg1 == [lg EXCEPT !.filePath = existingFile,
                          !.exchangeCount = getLastExchangeNumber(fs, existingFile)]
        lg2 == loadPreviousSessionStats(lg1, fs, existingFile)
    IN  [lg |-> lg2, fs |-> removeLastSessionEnd(fs, lg2.filePath)]

\* handleSystemMessage (lines 210-232): create the file with session_start.
createNewFile(lg, fs, stamp) ==
    LET lg1 == [lg EXCEPT !.filePath =
                    fileName(stamp, sessionIdShort(lg.sessionId))]
    IN  [lg |-> lg1,
         fs |-> appendLine(fs, lg1.filePath,
                  [type |-> "session_start", session_id |-> lg1.sessionId,
                   ts |-> Now, model |-> lg1.sessionModel,
                   cwd |-> lg1.sessionCwd,
                   tools_available |-> lg1.sessionTools,
                   permission_mode |-> lg1.sessionPermissionMode])]

\* handleSystemMessage when the wall clock reads stamp
handleSystemMessageAt(lg, fs, m, stamp) ==
    LET lg1 == readInitMessage(lg, m)
        existingFile == findExistingSessionFile(fs, lg1.sessionId)
    IN  IF existingFile # NoPath
        THEN resumeExistingFile(lg1, fs, existingFile)
        ELSE createNewFile(lg1, fs, stamp)

handleSystemMessage(lg, fs, m) == handleSystemMessageAt(lg, fs, m, FirstStamp)

\* toolsUsed[name]++ (lines 265-268)
countTool(toolsUsed, name) ==
    [n \in DOMAIN toolsUsed \cup {name} |->
        IF n = name
        THEN (IF n \in DOMAIN toolsUsed THEN toolsUsed[n] ELSE 0) + 1
        ELSE toolsUsed[n]]

\* Variant of assistantBlock that buffers a tool_use block without
\* counting it.
assistantBlockUncounted(lg, block) ==
    IF block.type = "text" /\ block.text # ""
    THEN [lg EXCEPT !.currentMessages =
            Append(@, [source |-> "assistant", type |-> "text",
                       text |-> block.text, ts |-> Now])]
    ELSE IF block.type = "tool_use" /\ block.id # "" /\ block.name # ""
    THEN [lg EXCEPT !.currentMessages =
            Append(@, [source |-> "assistant", type |-> "tool_use",
                       tool_use_id |-> block.id, name |-> block.name,
                       input |-> block.input, ts |-> Now])]
    ELSE lg

\* Variant of assistantBlock that takes a tool_use block without looking
\* at its id and name.
assistantBlockUnchecked(lg, block) ==
    IF block.type = "text" /\ block.text # ""
    THEN [lg EXCEPT !.currentMessages =
            Append(@, [source |-> "assistant", type |-> "text",
                       text |-> block.text, ts |-> Now])]
    ELSE IF block.type = "tool_use"
    THEN [lg EXCEPT !.currentMessages =
            Append(@, [source |-> "assistant", type |-> "tool_use",
                       tool_use_id |-> block.id, name |-> block.name,
                       input |-> block.input, ts |-> Now]),
                    !.toolsUsed = countTool(@, block.name)]
    ELSE lg

\* One content block of an assistant message (lines 245-269).
assistantBlock(lg, block) ==
    IF block.type = "text" /\ block.text # ""
    THEN [lg EXCEPT !.currentMessages =
            Append(@, [source |-> "assistant", type |-> "text",
                       text |-> block.text, ts |-> Now])]
    ELSE IF block.type = "tool_use" /\ block.id # "" /\ block.name # ""
    THEN [lg EXCEPT !.currentMessages =
            Append(@, [source |-> "assistant", type |-> "tool_use",
                       tool_use_id |-> block.id, name |-> block.name,
                       input |-> block.input, ts |-> Now]),
                    !.toolsUsed = countTool(@, block.name)]
    ELSE lg

RECURSIVE handleAssistantContent(_, _)
handleAssistantContent(lg, content) ==
    IF content = << >> THEN lg
    ELSE handleAssistantContent(assistantBlock(lg, Head(content)), Tail(content))

handleAssistantMessage(lg, m) == handleAssistantContent(lg, m.content)

\* Variant of userBlock that puts the tool result at the front of the
\* buffer.
userBlockFirst(lg, block) ==
    IF block.type = "tool_result" /\ block.tool_use_id # ""
    THEN [lg EXCEPT !.currentMessages =
            <<[source |-> "tool", type |-> "result",
               tool_use_id |-> block.tool_use_id,
               is_error |-> block.is_error,
               output |-> block.content, ts |-> Now]>> \o @]
    ELSE lg

\* One content block of a user message (lines 283-292).
userBlock(lg, block) ==
    IF block.type = "tool_result" /\ block.tool_use_id # ""
    THEN [lg EXCEPT !.currentMessages =
            Append(@, [source |-> "tool", type |-> "result",
                       tool_use_id |-> block.tool_use_id,
                       is_error |-> block.is_error,
                       output |-> block.content, ts |-> Now])]
    ELSE lg

RECURSIVE handleUserContent(_, _)
handleUserContent(lg, content) ==
    IF content = << >> THEN lg
    ELSE handleUserContent(userBlock(lg, Head(content)), Tail(content))

handleUserMessage(lg, m) == handleUserContent(lg, m.content)

\* Lines 302-312.
extractStats(m) ==
    [num_turns |-> OrZero(m.num_turns),
     duration_ms |-> OrZero(m.duration_ms),
     duration_api_ms |-> m.duration_api_ms,
     tokens_in |-> OrZero(m.usage.input_tokens),
     tokens_out |-> OrZero(m.usage.output_tokens),
     cache_creation |-> OrZero(m.usage.cache_creation_input_tokens),
     cache_read |-> OrZero(m.usage.cache_read_input_tokens),
     cost_usd |-> OrZero(m.total_cost_usd)]

\* Lines 314-324.
buildExchange(lg, stats) ==
    [type |-> "exchange", session_id |-> lg.sessionId,
     exchange |-> lg.exchangeCount, ts_start |-> lg.exchangeStartTs,
     ts_end |-> Now, user_input |-> lg.currentUserInput,
     messages |-> lg.currentMessages, stats |-> stats]

\* Variant of aggregateStats that leaves the cost out of the totals.
aggregateStatsWithoutCost(lg, stats) ==
    [lg EXCEPT !.totalDurationMs = @ + stats.duration_ms,
               !.totalDurationApiMs = @ + OrZero(stats.duration_api_ms),
               !.lastExchangeTokens =
                   [input |-> stats.tokens_in, output |-> stats.tokens_out,
                    cache_creation |-> stats.cache_creation,
                    cache_read |-> stats.cache_read]]

\* Lines 329-340.
aggregateStats(lg, stats) ==
    [lg EXCEPT !.totalDurationMs = @ + stats.duration_ms,
               !.totalDurationApiMs = @ + OrZero(stats.duration_api_ms),
               !.totalCostUsd = @ + stats.cost_usd,
               !.lastExchangeTokens =
                   [input |-> stats.tokens_in, output |-> stats.tokens_out,
                    cache_creation |-> stats.cache_creation,
                    cache_read |-> stats.cache_read]]

\* Variant of resetExchangeBuffer that keeps the buffered sub-events.
resetExchangeBufferKeepsMessages(lg) ==
    [lg EXCEPT !.currentUserInput = "",
               !.exchangeStartTs = ""]

\* Lines 342-345.
resetExchangeBuffer(lg) ==
    [lg EXCEPT !.currentMessages = << >>,
               !.currentUserInput = "",
               !.exchangeStartTs = ""]

\* Variant of handleResultMessage that writes the exchange only when
\* logUserInput() has opened one.
handleResultMessageOpenedOnly(lg, fs, m) ==
    LET stats == extractStats(m) IN
    [lg |-> resetExchangeBuffer(aggregateStats(lg, stats)),
     fs |-> IF lg.exchangeStartTs = "" THEN fs
            ELSE appendLine(fs, lg.filePath, buildExchange(lg, stats))]

handleResultMessage(lg, fs, m) ==
    LET stats == extractStats(m) IN
    [lg |-> resetExchangeBuffer(aggregateStats(lg, stats)),
     fs |-> appendLine(fs, lg.filePath, buildExchange(lg, stats))]

\* appendLine on a disk that may refuse the write: the return at line 106
\* comes before fs.appendFileSync (line 108), which throws when the file
\* cannot be written.
appendLineThrows(path, writable) == path # NoPath /\ ~writable

\* handleResultMessage on such a disk: an exception thrown by appendLine
\* leaves the handler at line 327, with lines 329-345 not executed.
handleResultMessageOnDisk(lg, fs, m, writable) ==
    IF appendLineThrows(lg.filePath, writable)
    THEN [lg |-> lg, fs |-> fs, threw |-> TRUE]
    ELSE [lg |-> handleResultMessage(lg, fs, m).lg,
          fs |-> handleResultMessage(lg, fs, m).fs,
          threw |-> FALSE]

(***************************************************************************)
(* The public API                                                          *)
(***************************************************************************)
\* Variant of log that hands every system event to handleSystemMessage.
logAnySystemEvent(lg, fs, m) ==
    IF "type" \notin DOMAIN m THEN [lg |-> lg, fs |-> fs]
    ELSE IF m.type = "system" THEN handleSystemMessage(lg, fs, m)
    ELSE IF m.type = "assistant"
    THEN [lg |-> handleAssistantMessage(lg, m), fs |-> fs]
    ELSE IF m.type = "user"
    THEN [lg |-> handleUserMessage(lg, m), fs |-> fs]
    ELSE IF m.type = "result"
    THEN handleResultMessage(lg, fs, m)
    ELSE [lg |-> lg, fs |-> fs]

\* log: a null message or one without a type returns at line 352.
log(lg, fs, m) ==
    IF "type" \notin DOMAIN m THEN [lg |-> lg, fs |-> fs]
    ELSE IF m.type = "system"
    THEN (IF m.subtype = "init" THEN handleSystemMessage(lg, fs, m)
          ELSE [lg |-> lg, fs |-> fs])
    ELSE IF m.type = "assistant"
    THEN [lg |-> handleAssistantMessage(lg, m), fs |-> fs]
    ELSE IF m.type = "user"
    THEN [lg |-> handleUserMessage(lg, m), fs |-> fs]
    ELSE IF m.type = "result"
    THEN handleResultMessage(lg, fs, m)
    ELSE [lg |-> lg, fs |-> fs]

logUserInput(lg, userText) ==
    [lg EXCEPT !.exchangeCount = @ + 1,
               !.exchangeStartTs = Now,
               !.currentUserInput = userText]

sessionEndRecord(lg) ==
    [type |-> "session_end", session_id |-> lg.sessionId, ts |-> Now,
     total_exchanges |-> lg.exchangeCount,
     total_duration_ms |-> lg.totalDurationMs,
     total_duration_api_ms |-> lg.totalDurationApiMs,
     total_cost_usd |-> lg.totalCostUsd,
     total_tokens |-> lg.lastExchangeTokens,
     tools_used |-> lg.toolsUsed]

\* Variant of close that writes the session_end record twice.
closeWritesTwice(lg, fs) ==
    [lg |-> lg,
     fs |-> appendLine(appendLine(fs, lg.filePath, sessionEndRecord(lg)),
                       lg.filePath, sessionEndRecord(lg))]

\* Variant of close that clears the running totals once they are written.
closeForgetsTotals(lg, fs) ==
    [lg |-> [lg EXCEPT !.totalDurationMs = 0, !.totalDurationApiMs = 0,
                       !.totalCostUsd = 0],
     fs |-> appendLine(fs, lg.filePath, sessionEndRecord(lg))]

\* close (lines 417-432): appends the session_end record built from the
\* closure state and assigns to none of the closure variables.
close(lg, fs) ==
    [lg |-> lg, fs |-> appendLine(fs, lg.filePath, sessionEndRecord(lg))]

\* createSessionLogger: the closure state after construction.
createSessionLogger ==
    [sessionId |-> NoId, filePath |-> NoPath, exchangeCount |-> 0,
     currentMessages |-> << >>, currentUserInput |-> "",
     exchangeStartTs |-> "",
     totalDurationMs |-> 0, totalDurationApiMs |-> 0, totalCostUsd |-> 0,
     lastExchangeTokens |->
        [input |-> 0, output |-> 0, cache_creation |-> 0, cache_read |-> 0],
     toolsUsed |-> [n \in {} |-> 0],
     sessionModel |-> "", sessionCwd |-> "", sessionTools |-> << >>,
     sessionPermissionMode |-> "default"]

(***************************************************************************)
(* History of the calls, kept beside the program state                     *)
(*   phase      conceptual state of the instance: uninitialized, idle,     *)
(*              accumulating, closed                                       *)
(*   instClean  the instance has made its calls in the order               *)
(*              init (logUserInput sub-event* result)* [close]             *)
(*   prevClean  every earlier instance did                                 *)
(*   nInst      logger instances created so far                            *)
(*   nCalls     calls made so far (instance creations included)            *)
(*   nPre/nPost result events passed to log() before / after the first init*)
(*   nInput     logUserInput() calls of the instance                       *)
(*   base       exchange records on disk when the instance was created     *)
(*   found      what the first init of the instance found on disk          *)
(*   lastCall   the call that produced the current state, and whether it   *)
(*              returned (ok) or threw                                     *)
(*   opened     the exchange opened by the last logUserInput(): its text,  *)
(*              the events passed to log() up to its result event, and     *)
(*              whether it was opened while another exchange was open      *)
(*   seenTools  tool_use sub-events observed while attached to the file,   *)
(*              per tool name                                              *)
(*   seenStats  sums of duration_ms and total_cost_usd, and the token       *)
(*              counts of the last one, of the result events passed to     *)
(*              log() by the instance, whether or not the append succeeded  *)
(***************************************************************************)
NotOpened ==
    [active |-> FALSE, input |-> "", events |-> << >>, supersedes |-> FALSE]
NothingSeen == [n \in ToolNames |-> 0]
NoStatsSeen ==
    [ms |-> 0, cost |-> 0,
     tokens |-> [input |-> 0, output |-> 0, cache_creation |-> 0,
                 cache_read |-> 0]]
SeeStats(seen, m) ==
    [ms |-> seen.ms + OrZero(m.duration_ms),
     cost |-> seen.cost + OrZero(m.total_cost_usd),
     tokens |-> [input |-> OrZero(m.usage.input_tokens),
                 output |-> OrZero(m.usage.output_tokens),
                 cache_creation |-> OrZero(m.usage.cache_creation_input_tokens),
                 cache_read |-> OrZero(m.usage.cache_read_input_tokens)]]

NewHist(n, calls, clean, b, seen) ==
    [phase |-> "uninitialized", instClean |-> TRUE, prevClean |-> clean,
     nInst |-> n, nCalls |-> calls, nPre |-> 0, nPost |-> 0, nInput |-> 0,
     base |-> b, found |-> [state |-> "none", lines |-> << >>],
     lastCall |-> [op |-> "new", arg |-> "", ok |-> TRUE],
     opened |-> NotOpened, seenTools |-> seen, seenStats |-> NoStatsSeen]

ExchangeLines(lines) == SelectSeq(lines, LAMBDA l : l.type = "exchange")
EndLines(lines) == SelectSeq(lines, LAMBDA l : l.type = "session_end")
StartLines(lines) == SelectSeq(lines, LAMBDA l : l.type = "session_start")

RECURSIVE CountExchanges(_, _)
CountExchanges(fs, names) ==
    IF names = {} THEN 0
    ELSE LET p == CHOOSE q \in names : TRUE
         IN  Len(ExchangeLines(fs[p])) + CountExchanges(fs, names \ {p})

AllExchanges(fs) == CountExchanges(fs, DOMAIN fs)

\* tool_use blocks of an event that carry an id and the given name
ToolUsesIn(m, name) ==
    IF m.type # "assistant" THEN 0
    ELSE Cardinality({i \in 1..Len(m.content) :
            /\ m.content[i].type = "tool_use"
            /\ m.content[i].id # ""
            /\ m.content[i].name = name})

Count(h) == h.nCalls + 1

Initialized == logger.filePath # NoPath
CurrentFile == files[logger.filePath]

(***************************************************************************)
(* Actions: one per public call, and the creation of a new instance        *)
(***************************************************************************)
\* main() has created the logger (line 199) and the generator waits for
\* the first line of input.
CliStart == [pc |-> "prompt", closes |-> 0]

\* The chat interface after its first render (useState, lines 32-39).
\* Text is the sequence of its pieces.  req is what the handleSubmit call
\* under way holds: the sessionId and newMessages of the render it was
\* created in, and its local assistantContent.
NoSession == ""
NoRequest ==
    [sessionId |-> NoSession, newMessages |-> << >>,
     assistantContent |-> << >>, closed |-> FALSE]
ChatStart ==
    [messages |-> << >>, isStreaming |-> FALSE, streamingContent |-> << >>,
     debugMessages |-> << >>, sentMessages |-> << >>, sessionId |-> NoSession,
     pc |-> "idle", req |-> NoRequest]

Init ==
    /\ files = [p \in {} |-> << >>]
    /\ logger = createSessionLogger
    /\ hist = NewHist(1, 0, TRUE, 0, NothingSeen)
    /\ cli = CliStart
    /\ ui = ChatStart

\* A new logger instance replaces the current one (the process ended with
\* or without close(), or the web route serves its next request).
NewInstance ==
    /\ hist.nInst < MaxInstances
    /\ logger' = createSessionLogger
    /\ files' = files
    /\ hist' = NewHist(hist.nInst + 1, Count(hist),
                       hist.prevClean /\ hist.instClean,
                       AllExchanges(files), hist.seenTools)

\* log({type: "system", subtype: "init", ...})
LogInit ==
    \E m \in InitMsgs :
      LET r == log(logger, files, m)
          existing == findExistingSessionFile(files, m.session_id)
      IN
      /\ logger' = r.lg
      /\ files' = r.fs
      /\ hist' = [hist EXCEPT
            !.phase = IF @ # "uninitialized" THEN @
                      ELSE IF hist.opened.active THEN "accumulating"
                      ELSE "idle",
            !.instClean = @ /\ hist.phase = "uninitialized",
            !.nCalls = Count(hist),
            !.found = IF hist.found.state # "none" THEN @
                      ELSE IF existing = NoPath
                           THEN [state |-> "fresh", lines |-> << >>]
                           ELSE [state |-> "resumed", lines |-> files[existing]],
            !.lastCall = [op |-> "init", arg |-> m, ok |-> TRUE]]

\* logUserInput(text)
LogUserInput ==
    \E text \in UserTexts :
      /\ hist.nInput < MaxLines
      /\ logger' = logUserInput(logger, text)
      /\ files' = files
      /\ hist' = [hist EXCEPT
            !.phase = IF @ = "idle" THEN "accumulating" ELSE @,
            !.instClean = @ /\ hist.phase = "idle",
            !.nCalls = Count(hist),
            !.nInput = @ + 1,
            !.opened = [active |-> TRUE, input |-> text, events |-> << >>,
                        supersedes |-> hist.opened.active],
            !.lastCall = [op |-> "input", arg |-> text, ok |-> TRUE]]

\* log(assistant message) and log(user message carrying tool results)
LogSubEvent ==
    \E m \in AssistantMsgs \cup UserMsgs :
      LET r == log(logger, files, m) IN
      /\ Len(r.lg.currentMessages) <= MaxMsgs
      /\ logger' = r.lg
      /\ files' = r.fs
      /\ hist' = [hist EXCEPT
            !.instClean = @ /\ hist.phase = "accumulating",
            !.nCalls = Count(hist),
            !.opened = IF @.active THEN [@ EXCEPT !.events = Append(@, m)] ELSE @,
            !.seenTools = IF Initialized
                          THEN [n \in ToolNames |-> @[n] + ToolUsesIn(m, n)]
                          ELSE @,
            !.lastCall = [op |-> m.type, arg |-> m, ok |-> TRUE]]

\* log(result message)
LogResult ==
    \E m \in ResultMsgs :
      LET r == log(logger, files, m) IN
      /\ hist.nPre + hist.nPost < MaxLines
      /\ Initialized => Len(CurrentFile) < MaxLines
      /\ logger' = r.lg
      /\ files' = r.fs
      /\ hist' = [hist EXCEPT
            !.phase = IF @ = "accumulating" THEN "idle" ELSE @,
            !.instClean = @ /\ hist.phase = "accumulating",
            !.nCalls = Count(hist),
            !.nPre = IF Initialized THEN @ ELSE @ + 1,
            !.nPost = IF Initialized THEN @ + 1 ELSE @,
            !.opened = [@ EXCEPT !.active = FALSE],
            !.seenStats = SeeStats(@, m),
            !.lastCall = [op |-> "result", arg |-> m, ok |-> TRUE]]

\* log(result message) while the disk refuses writes
LogResultDiskFull ==
    \E m \in ResultMsgs :
      LET r == handleResultMessageOnDisk(logger, files, m, FALSE) IN
      /\ logger' = r.lg
      /\ files' = r.fs
      /\ hist' = [hist EXCEPT
            !.phase = IF @ = "accumulating" THEN "idle" ELSE @,
            !.instClean = @ /\ hist.phase = "accumulating",
            !.nCalls = Count(hist),
            !.nPre = IF Initialized THEN @ ELSE @ + 1,
            !.opened = [@ EXCEPT !.active = FALSE],
            !.seenStats = SeeStats(@, m),
            !.lastCall = [op |-> "result", arg |-> m, ok |-> ~r.threw]]

\* log(event outside the recognized set)
LogOther ==
    \E m \in OtherMsgs :
      LET r == log(logger, files, m) IN
      /\ logger' = r.lg
      /\ files' = r.fs
      /\ hist' = [hist EXCEPT
            !.nCalls = Count(hist),
            !.lastCall = [op |-> "other", arg |-> m, ok |-> TRUE]]

\* close()
Close ==
    /\ Initialized => Len(CurrentFile) < MaxLines
    /\ logger' = close(logger, files).lg
    /\ files' = close(logger, files).fs
    /\ hist' = [hist EXCEPT
          !.phase = IF @ = "uninitialized" THEN @ ELSE "closed",
          !.instClean = @ /\ hist.phase = "idle",
          !.nCalls = Count(hist),
          !.lastCall = [op |-> "close", arg |-> "", ok |-> TRUE]]

\* Any caller: every call in any order, MaxCalls calls in all.
Next ==
    /\ hist.nCalls < MaxCalls
    /\ \/ NewInstance
       \/ LogInit
       \/ LogUserInput
       \/ LogSubEvent
       \/ LogResult
       \/ Close
    /\ UNCHANGED <<cli, ui>>

Spec == Init /\ [][Next]_vars

\* Any caller, with events the logger does not recognize and a disk that
\* may refuse a write.  MaxFaultCalls calls in all.
NextFaults ==
    /\ hist.nCalls < MaxFaultCalls
    /\ \/ NewInstance
       \/ LogInit
       \/ LogUserInput
       \/ LogSubEvent
       \/ LogResult
       \/ LogResultDiskFull
       \/ LogOther
       \/ Close
    /\ UNCHANGED <<cli, ui>>

SpecFaults == Init /\ [][NextFaults]_vars

\* A caller that makes its calls in the order of the repository's drivers:
\* init, then exchanges (logUserInput, sub-events, result), then at most
\* one close(), where the first logUserInput() may come before init (the
\* CLI logs the user input before the stream delivers init); the instance
\* may be replaced at any point.  MaxProtocolCalls calls in all.
NextProtocol ==
    /\ hist.nCalls < MaxProtocolCalls
    /\ \/ NewInstance
       \/ hist.phase = "uninitialized" /\ LogInit
       \/ hist.phase = "uninitialized" /\ hist.nInput = 0 /\ LogUserInput
       \/ hist.phase = "idle" /\ LogUserInput
       \/ hist.phase = "accumulating" /\ LogSubEvent
       \/ hist.phase = "accumulating" /\ LogResult
       \/ hist.phase = "idle" /\ Close
    /\ UNCHANGED <<cli, ui>>

SpecProtocol == Init /\ [][NextProtocol]_vars

(***************************************************************************)
(* Resumption: a new instance meets the file an earlier run left behind    *)
(***************************************************************************)
\* The earlier run after init: "x" is a whole exchange (logUserInput, an
\* assistant event with a tool_use block, a result event), "e" a close().
RECURSIVE PreviousRun(_, _, _)
PreviousRun(lg, fs, calls) ==
    IF calls = << >> THEN fs
    ELSE IF Head(calls) = "x"
    THEN LET r1 == log(logUserInput(lg, "hello"), fs,
                       [type |-> "assistant",
                        content |-> <<toolUseBlock("Read")>>])
             r2 == log(r1.lg, r1.fs, resultFull)
         IN  PreviousRun(r2.lg, r2.fs, Tail(calls))
    ELSE LET r == close(lg, fs)
         IN  PreviousRun(r.lg, r.fs, Tail(calls))

PreviousCalls ==
    UNION {[1..n -> {"x", "e"}] : n \in 0..MaxFoundCalls}

\* The files an earlier run for session idA can leave behind: what it
\* wrote, possibly followed by a line cut short by a crash.
FoundFiles ==
    LET r0 == log(createSessionLogger, [p \in {} |-> << >>], InitMessage(idA))
    IN  { PreviousRun(r0.lg, r0.fs, calls)[fileOf(idA)] \o tail :
            calls \in PreviousCalls, tail \in {<< >>, <<partialLine>>} }

InitResume ==
    /\ \E f \in FoundFiles :
          /\ files = [p \in {fileOf(idA)} |-> f]
          /\ hist = NewHist(2, 0, FALSE, Len(ExchangeLines(f)), NothingSeen)
    /\ logger = createSessionLogger
    /\ cli = CliStart
    /\ ui = ChatStart

\* The resuming instance makes its calls in the drivers' order.
NextResume ==
    /\ hist.nCalls < MaxResumeCalls
    /\ \/ hist.phase = "uninitialized" /\ LogInit
       \/ hist.phase = "uninitialized" /\ hist.nInput = 0 /\ LogUserInput
       \/ hist.phase = "idle" /\ LogUserInput
       \/ hist.phase = "accumulating" /\ LogSubEvent
       \/ hist.phase = "accumulating" /\ LogResult
       \/ hist.phase = "idle" /\ Close
    /\ UNCHANGED <<cli, ui>>

SpecResume == InitResume /\ [][NextResume]_vars

(***************************************************************************)
(* The command-line driver (app/api/chat/agent.ts)                         *)
(*   cli.pc      prompt     generateMessages waits for a line of input     *)
(*               streaming  a user message was yielded; main's for-await   *)
(*                          loop logs what the stream delivers             *)
(*               ended      the loop ended normally and finally has run;   *)
(*                          the process has not exited yet                 *)
(*               exited     process.exit was called, or the process ended  *)
(*   cli.closes  calls of logger.close() made so far                       *)
(***************************************************************************)
CliClosed(pc) == [pc |-> pc, closes |-> cli.closes + 1]

\* generateMessages, lines 171-188: a line of input is logged, then yielded.
CliUserMessage ==
    /\ hist.nCalls < MaxCliCalls
    /\ cli.pc = "prompt"
    /\ LogUserInput
    /\ cli' = [cli EXCEPT !.pc = "streaming"]
    /\ ui' = ui

\* main, lines 203-208: the stream delivers init, and it is logged.
CliInit ==
    /\ hist.nCalls < MaxCliCalls
    /\ cli.pc = "streaming"
    /\ hist.phase = "uninitialized"
    /\ LogInit
    /\ cli' = cli
    /\ ui' = ui

\* main, lines 203-208: the stream delivers an assistant or user message.
CliSubEvent ==
    /\ hist.nCalls < MaxCliCalls
    /\ cli.pc = "streaming"
    /\ hist.phase = "accumulating"
    /\ LogSubEvent
    /\ cli' = cli
    /\ ui' = ui

\* main, lines 203-208: the stream delivers the result of the turn; the
\* generator is asked for the next user message.
CliResult ==
    /\ hist.nCalls < MaxCliCalls
    /\ cli.pc = "streaming"
    /\ hist.phase = "accumulating"
    /\ LogResult
    /\ cli' = [cli EXCEPT !.pc = "prompt"]
    /\ ui' = ui

\* generateMessages, lines 161-169: the exit or quit command.
CliExitCommand ==
    /\ hist.nCalls < MaxCliCalls
    /\ cli.pc = "prompt"
    /\ Close
    /\ cli' = CliClosed("exited")
    /\ ui' = ui

\* main, lines 219-230: the stream throws; catch closes the logger and
\* calls process.exit(1), so that finally is not reached.
CliStreamError ==
    /\ hist.nCalls < MaxCliCalls
    /\ cli.pc \in {"prompt", "streaming"}
    /\ Close
    /\ cli' = CliClosed("exited")
    /\ ui' = ui

\* main, lines 231-234: the stream ends; finally closes the logger and
\* main returns.  Nothing ends the process here: the readline interface
\* and the SIGINT handler stay installed.
CliStreamEnd ==
    /\ hist.nCalls < MaxCliCalls
    /\ cli.pc \in {"prompt", "streaming"}
    /\ Close
    /\ cli' = CliClosed("ended")
    /\ ui' = ui

\* The SIGINT handler, lines 238-245: logger is set, so it is closed, and
\* process.exit(0) is called.
CliSigint ==
    /\ hist.nCalls < MaxCliCalls
    /\ cli.pc \in {"prompt", "streaming", "ended"}
    /\ Close
    /\ cli' = CliClosed("exited")
    /\ ui' = ui

\* The process ends after main has returned.
CliProcessEnd ==
    /\ cli.pc = "ended"
    /\ cli' = [cli EXCEPT !.pc = "exited"]
    /\ ui' = ui
    /\ UNCHANGED <<files, logger, hist>>

NextCli ==
    \/ CliUserMessage
    \/ CliInit
    \/ CliSubEvent
    \/ CliResult
    \/ CliExitCommand
    \/ CliStreamError
    \/ CliStreamEnd
    \/ CliSigint
    \/ CliProcessEnd

SpecCli == Init /\ [][NextCli]_vars

(***************************************************************************)
(* Reading a session file back                                             *)
(***************************************************************************)
Last(s) == s[Len(s)]

ApiMs(stats) ==
    IF "duration_api_ms" \in DOMAIN stats THEN stats.duration_api_ms ELSE 0

SumDurationMs(ex) == SumSeq([i \in 1..Len(ex) |-> ex[i].stats.duration_ms])
SumDurationApiMs(ex) == SumSeq([i \in 1..Len(ex) |-> ApiMs(ex[i].stats)])
SumCostUsd(ex) == SumSeq([i \in 1..Len(ex) |-> ex[i].stats.cost_usd])

TokensOf(stats) ==
    [input |-> stats.tokens_in, output |-> stats.tokens_out,
     cache_creation |-> stats.cache_creation, cache_read |-> stats.cache_read]

ToolCount(toolsUsed, n) == IF n \in DOMAIN toolsUsed THEN toolsUsed[n] ELSE 0

\* close() has just written the last line of the current file
JustClosed == Initialized /\ hist.lastCall.op = "close"

\* every instance so far called init first, then whole exchanges, then at
\* most one close()
AllClean == hist.instClean /\ hist.prevClean

(***************************************************************************)
(* Claims                                                                  *)
(***************************************************************************)

\* C1 as stated: on one logger instance, the number of exchange records in
\* the session file equals the number of result events passed to log(),
\* result events that arrive before the init event included.
C1_ExchangesEqualAllResults ==
    (hist.nInst = 1 /\ Initialized) =>
        Len(ExchangeLines(CurrentFile)) = hist.nPre + hist.nPost

\* C1 amended: the number of exchange records a logger instance has appended
\* equals the number of result events passed to log() after its init event
\* (with or without a preceding logUserInput()); a result event that arrives
\* before init writes no record.
C1_ExchangesEqualResultsAfterInit ==
    AllExchanges(files) - hist.base = hist.nPost

\* C1 witness: an initialized instance that saw a result event before init
\* and another after it, neither opened by logUserInput().
C1_Witness ==
    /\ Initialized
    /\ hist.nPre > 0
    /\ hist.nPost > 0
    /\ hist.nInput = 0

\* C2: whenever close() writes a session_end record, its summed fields equal
\* the sums of the stats fields of the exchange records in the same file,
\* for successive instances that each call init, whole exchanges, and then
\* close() or nothing.
C2_TotalsAreSums ==
    (JustClosed /\ AllClean) =>
        LET e  == Last(CurrentFile)
            ex == ExchangeLines(CurrentFile)
        IN  /\ e.total_duration_ms = SumDurationMs(ex)
            /\ e.total_duration_api_ms = SumDurationApiMs(ex)
            /\ e.total_cost_usd = SumCostUsd(ex)

\* C3: every session_end record written by close() has total_tokens equal
\* to the token counts of the last exchange record in the file, also when
\* that record was written by an earlier instance, closed or not.
C3_TokensOfLastExchange ==
    (JustClosed /\ AllClean /\ ExchangeLines(CurrentFile) # << >>) =>
        Last(CurrentFile).total_tokens =
            TokensOf(Last(ExchangeLines(CurrentFile)).stats)

\* C4: for every tool name, the tools_used count of a session_end record
\* equals the number of tool_use sub-events with that name observed over the
\* whole session, earlier instances included.
C4_ToolCountsAreObserved ==
    (JustClosed /\ AllClean) =>
        \A n \in ToolNames :
            ToolCount(Last(CurrentFile).tools_used, n) = hist.seenTools[n]

\* C5: when a new instance receives init for a file that ends in a
\* session_end record, then after its exchanges and its close() the file
\* holds exactly one session_end record, as the last line, however many
\* times the earlier instance called close().
C5_OneSessionEndAfterResume ==
    ( /\ hist.found.state = "resumed"
      /\ Last(hist.found.lines).type = "session_end"
      /\ hist.instClean
      /\ hist.phase = "closed" ) =>
        /\ Len(EndLines(CurrentFile)) = 1
        /\ Last(CurrentFile).type = "session_end"

\* C6: after close() on an initialized logger the file reads back as one
\* session_start first, then exchange records only, then a single
\* session_end as the last line, whatever calls were made before that
\* close().
C6_FileShapeAfterClose ==
    JustClosed =>
        LET f == CurrentFile IN
        /\ f[1].type = "session_start"
        /\ Len(StartLines(f)) = 1
        /\ Last(f).type = "session_end"
        /\ Len(EndLines(f)) = 1

\* C7: the ordinals of the exchange records of a file start at 1 and are
\* strictly increasing in file order, over any number of resuming
\* instances.
C7_OrdinalsIncreaseFromOne ==
    \A p \in DOMAIN files :
        LET ex == ExchangeLines(files[p]) IN
        /\ ex # << >> => ex[1].exchange = 1
        /\ \A i \in 1..(Len(ex) - 1) : ex[i].exchange < ex[i + 1].exchange

\* The file found by the instance's first init: session_start, exchange 1,
\* session_end.
FoundClosedAfterOneExchange ==
    /\ hist.found.state = "resumed"
    /\ Len(hist.found.lines) = 3
    /\ hist.found.lines[1].type = "session_start"
    /\ hist.found.lines[2].type = "exchange"
    /\ hist.found.lines[2].exchange = 1
    /\ hist.found.lines[3].type = "session_end"

\* C8: a new instance that observes init for a session whose file holds
\* session_start, exchange 1 and session_end writes no second
\* session_start, has the trailing session_end removed before anything is
\* appended, and writes the exchange started by the next logUserInput()
\* with ordinal 2.
C8_ResumeContinuesAtTwo ==
    (FoundClosedAfterOneExchange /\ hist.instClean) =>
        LET f == CurrentFile IN
        /\ Len(StartLines(f)) = 1
        /\ SubSeq(f, 1, 2) = SubSeq(hist.found.lines, 1, 2)
        /\ (hist.nPost = 0 /\ hist.phase # "closed") => Len(f) = 2
        /\ (Len(f) >= 3 /\ f[3].type = "exchange") =>
              /\ f[3].exchange = 2
              /\ hist.nInput = 1 => f[3].user_input = hist.opened.input

\* C8 witness: the resumed instance has written its first exchange.
C8_Witness ==
    /\ FoundClosedAfterOneExchange
    /\ hist.instClean
    /\ hist.lastCall.op = "result"
    /\ Len(CurrentFile) = 3
    /\ CurrentFile[3].type = "exchange"

\* A stats field copies the event's field; an absent field is recorded as 0.
Copied(field, value) ==
    IF field = Undefined THEN value = 0 ELSE value = field

StatsCopy(stats, m) ==
    /\ Copied(m.num_turns, stats.num_turns)
    /\ Copied(m.duration_ms, stats.duration_ms)
    /\ Copied(m.total_cost_usd, stats.cost_usd)
    /\ Copied(m.usage.input_tokens, stats.tokens_in)
    /\ Copied(m.usage.output_tokens, stats.tokens_out)
    /\ Copied(m.usage.cache_creation_input_tokens, stats.cache_creation)
    /\ Copied(m.usage.cache_read_input_tokens, stats.cache_read)
    /\ Copied(m.duration_api_ms, ApiMs(stats))

textEvent == [type |-> "assistant", content |-> <<textBlock>>]

\* The instance created the file and has made exactly the calls init,
\* logUserInput, one assistant text event, result, and possibly close.
FreshFirstExchangeDone ==
    /\ hist.found.state = "fresh"
    /\ hist.instClean
    /\ hist.nInput = 1
    /\ hist.nPost = 1
    /\ hist.opened.events = <<textEvent>>

\* C9: on a fresh session, init, logUserInput(text), one assistant text
\* event and one result event leave a file of exactly two lines,
\* session_start then an exchange record with exchange = 1 whose stats copy
\* the result event's fields; a following close() appends a third line,
\* session_end, with total_exchanges = 1 and totals equal to that
\* exchange's stats.
C9_FreshSessionScenario ==
    FreshFirstExchangeDone =>
        LET f == CurrentFile
            x == f[2]
        IN
        /\ f[1].type = "session_start"
        /\ x.type = "exchange"
        /\ x.exchange = 1
        /\ x.user_input = hist.opened.input
        /\ x.messages = << [source |-> "assistant", type |-> "text",
                            text |-> textBlock.text, ts |-> Now] >>
        /\ hist.lastCall.op = "result" => StatsCopy(x.stats, hist.lastCall.arg)
        /\ hist.phase # "closed" => Len(f) = 2
        /\ hist.phase = "closed" =>
              /\ Len(f) = 3
              /\ f[3].type = "session_end"
              /\ f[3].total_exchanges = 1
              /\ f[3].total_duration_ms = x.stats.duration_ms
              /\ f[3].total_duration_api_ms = ApiMs(x.stats)
              /\ f[3].total_cost_usd = x.stats.cost_usd
              /\ f[3].total_tokens = TokensOf(x.stats)

\* C9 witness: the scenario of the specification, closed.
C9_Witness ==
    /\ FreshFirstExchangeDone
    /\ hist.phase = "closed"
    /\ hist.opened.input = "hello"
    /\ Len(CurrentFile) = 3
    /\ CurrentFile[2].stats.duration_ms = 100
    /\ CurrentFile[2].stats.cost_usd = 1
    /\ CurrentFile[2].stats.tokens_in = 5
    /\ CurrentFile[2].stats.tokens_out = 10
    /\ CurrentFile[3].total_exchanges = 1

\* C10: a second init event for the session the logger is already
\* initialized for leaves the file contents, the exchange counter, the
\* aggregate totals, the tool-usage counts and the sub-event buffer
\* unchanged, in every state in which it can arrive.
C10_SecondInitIsNoOp ==
    [][ ( /\ Initialized
          /\ hist'.nInst = hist.nInst
          /\ hist'.nCalls = hist.nCalls + 1
          /\ hist'.lastCall.op = "init"
          /\ hist'.lastCall.arg.session_id = logger.sessionId ) =>
        ( /\ files' = files
          /\ logger'.exchangeCount = logger.exchangeCount
          /\ logger'.totalDurationMs = logger.totalDurationMs
          /\ logger'.totalDurationApiMs = logger.totalDurationApiMs
          /\ logger'.totalCostUsd = logger.totalCostUsd
          /\ logger'.lastExchangeTokens = logger.lastExchangeTokens
          /\ logger'.toolsUsed = logger.toolsUsed
          /\ logger'.currentMessages = logger.currentMessages ) ]_vars

\* The sub-events a logger buffers for a sequence of events passed to
\* log(), starting from an empty buffer.
RECURSIVE BufferAfter(_, _)
BufferAfter(lg, events) ==
    IF events = << >> THEN lg.currentMessages
    ELSE BufferAfter(log(lg, [p \in {} |-> << >>], Head(events)).lg,
                     Tail(events))

SubEventsOf(events) == BufferAfter(createSessionLogger, events)

\* A call of the current instance has just been made
SameInstanceCall ==
    /\ hist'.nInst = hist.nInst
    /\ hist'.nCalls = hist.nCalls + 1

\* C11: the messages array of every exchange record consists of exactly
\* the sub-events observed between the logUserInput() call that opened the
\* exchange and its result event; sub-events observed while no exchange was
\* open, or in an exchange superseded by a later logUserInput(), are not in
\* it.
C11_MessagesAreThoseOfTheExchange ==
    [][ ( /\ SameInstanceCall
          /\ Initialized
          /\ hist.opened.active
          /\ hist'.lastCall.op = "result"
          /\ hist'.lastCall.ok ) =>
        Last(files'[logger.filePath]).messages =
            SubEventsOf(hist.opened.events) ]_vars

\* C12: before any init event has been observed, close(), logUserInput()
\* and every log() event other than init create no file, write no line and
\* raise no error, also on a disk that refuses writes.
C12_NothingWrittenBeforeInit ==
    [][ ( /\ SameInstanceCall
          /\ hist.found.state = "none"
          /\ hist'.lastCall.op # "init" ) =>
        ( /\ files' = files
          /\ hist'.lastCall.ok ) ]_vars

\* C12 witness: close() after logUserInput() and a result event, with no
\* init event so far.
C12_Witness ==
    /\ hist.found.state = "none"
    /\ hist.lastCall.op = "close"
    /\ hist.nInput > 0
    /\ hist.nPre > 0
    /\ files = [p \in {} |-> << >>]

\* C13: closed is terminal: in the file of one logger instance no exchange
\* record comes after a session_end record written by its close().
C13_NoExchangeAfterSessionEnd ==
    hist.nInst = 1 =>
        \A p \in DOMAIN files :
            \A i, j \in 1..Len(files[p]) :
                (i < j /\ files[p][i].type = "session_end") =>
                    files[p][j].type # "exchange"

\* C14: a log() call with a null or untyped message, a system event whose
\* subtype is not init, or an event of an unknown type leaves the logger
\* state and the directory unchanged and raises no error.
C14_UnrecognizedEventIsIgnored ==
    [][ ( /\ SameInstanceCall
          /\ hist'.lastCall.op = "other" ) =>
        ( /\ files' = files
          /\ logger' = logger
          /\ hist'.lastCall.ok ) ]_vars

\* C14 witness: a system event with another subtype arrives while an
\* exchange is open and sub-events are buffered.
C14_Witness ==
    /\ hist.lastCall.op = "other"
    /\ "type" \in DOMAIN hist.lastCall.arg
    /\ hist.lastCall.arg.type = "system"
    /\ Initialized
    /\ hist.opened.active
    /\ logger.exchangeCount > 0
    /\ logger.currentMessages # << >>

\* C15: when the append of an exchange record fails, aggregation is not
\* affected: the session_end written by a later close() carries the sums
\* and the token counts of every result event the instance observed, the
\* one whose append failed included.
C15_SessionEndCountsFailedAppend ==
    (JustClosed /\ hist.nInst = 1 /\ hist.instClean) =>
        LET e == Last(CurrentFile) IN
        /\ e.total_duration_ms = hist.seenStats.ms
        /\ e.total_cost_usd = hist.seenStats.cost
        /\ e.total_tokens = hist.seenStats.tokens

\* C16: after logUserInput(A) and logUserInput(B) with no result event in
\* between, the next result event writes exactly one exchange record, whose
\* user_input is B and whose messages are the sub-events observed since
\* logUserInput(B).
C16_SupersededInputLeavesNoTrace ==
    [][ ( /\ SameInstanceCall
          /\ Initialized
          /\ hist.opened.active
          /\ hist.opened.supersedes
          /\ hist'.lastCall.op = "result"
          /\ hist'.lastCall.ok ) =>
        LET f == files'[logger.filePath] IN
        /\ Len(f) = Len(CurrentFile) + 1
        /\ Last(f).type = "exchange"
        /\ Last(f).user_input = hist.opened.input
        /\ Last(f).messages = SubEventsOf(hist.opened.events) ]_vars

\* C17: in the command-line driver logger.close() is invoked exactly once
\* per run on every termination path: once the stream has ended or the
\* process has exited, close() has been called once.
C17_CloseOncePerRun ==
    cli.pc \in {"ended", "exited"} => cli.closes = 1

\* The session_start and exchange records of a file, in file order
RecordsKept(lines) ==
    SelectSeq(lines, LAMBDA l : l.type \in {"session_start", "exchange"})

IsPrefix(s, t) == Len(s) <= Len(t) /\ SubSeq(t, 1, Len(s)) = s

AllButLast(s) == SubSeq(s, 1, Len(s) - 1)

\* C18: the log is append-only with respect to session_start and exchange
\* records: no call of this or a later instance, the resumption rewrite
\* included, and no replacement of the instance without close() removes,
\* modifies or reorders such a line once it is in the file.
C18_RecordsAreAppendOnly ==
    [][ \A p \in DOMAIN files :
          /\ p \in DOMAIN files'
          /\ IsPrefix(RecordsKept(files[p]), RecordsKept(files'[p])) ]_vars

\* C18 witness: the resumption rewrite has just run on a file that holds
\* an exchange record and ended in session_end.
C18_Witness ==
    /\ hist.found.state = "resumed"
    /\ hist.lastCall.op = "init"
    /\ Last(hist.found.lines).type = "session_end"
    /\ ExchangeLines(hist.found.lines) # << >>
    /\ CurrentFile = AllButLast(hist.found.lines)

\* C19: removeLastSessionEnd, run by the init of a resuming instance, drops
\* exactly the last line of the file when that line parses as a
\* session_end record and keeps every other line in order; when the last
\* line is another record, or partial, the file is left untouched and no
\* error is raised.
C19_RemovesOnlyTrailingSessionEnd ==
    [][ ( /\ SameInstanceCall
          /\ hist.found.state = "none"
          /\ hist'.lastCall.op = "init"
          /\ hist'.lastCall.arg.session_id = idA
          /\ fileOf(idA) \in DOMAIN files ) =>
        LET f == files[fileOf(idA)] IN
        /\ files'[fileOf(idA)] =
              IF Last(f).type = "session_end" THEN AllButLast(f) ELSE f
        /\ hist'.lastCall.ok ]_vars

\* C19 witness: init has met a file whose last line is partial, after a
\* session_end, and left it untouched.
C19_Witness ==
    /\ hist.found.state = "resumed"
    /\ hist.lastCall.op = "init"
    /\ Len(hist.found.lines) >= 3
    /\ Last(hist.found.lines) = partialLine
    /\ hist.found.lines[Len(hist.found.lines) - 1].type = "session_end"
    /\ CurrentFile = hist.found.lines

\* The exchange records the resuming instance has appended before its
\* session_end, the found file having ended in session_end
NewExchanges == SubSeq(CurrentFile, Len(hist.found.lines), Len(CurrentFile) - 1)

RECURSIVE ToolUsesWritten(_, _)
ToolUsesWritten(ex, n) ==
    IF ex = << >> THEN 0
    ELSE Len(SelectSeq(Head(ex).messages,
                       LAMBDA msg : msg.type = "tool_use" /\ msg.name = n))
         + ToolUsesWritten(Tail(ex), n)

ResumedFromSessionEnd ==
    /\ hist.found.state = "resumed"
    /\ Last(hist.found.lines).type = "session_end"

\* C20: a logger that resumes a file whose last line is a session_end with
\* totals T, completes k exchanges and calls close() writes a session_end
\* whose summed fields are T plus the sums over the k exchanges, whose
\* tools_used are T's counts plus the new tool_use sub-events, and whose
\* total_tokens are those of the k-th exchange, or T's when k = 0.
C20_ResumedTotalsContinue ==
    (ResumedFromSessionEnd /\ JustClosed) =>
        LET T  == Last(hist.found.lines)
            e  == Last(CurrentFile)
            ex == NewExchanges
        IN  /\ \A i \in 1..Len(ex) : ex[i].type = "exchange"
            /\ e.total_duration_ms = T.total_duration_ms + SumDurationMs(ex)
            /\ e.total_duration_api_ms =
                  T.total_duration_api_ms + SumDurationApiMs(ex)
            /\ e.total_cost_usd = T.total_cost_usd + SumCostUsd(ex)
            /\ \A n \in ToolNames :
                  ToolCount(e.tools_used, n) =
                      ToolCount(T.tools_used, n) + ToolUsesWritten(ex, n)
            /\ e.total_tokens =
                  IF ex = << >> THEN T.total_tokens
                  ELSE TokensOf(Last(ex).stats)

\* C20 witness: T is not zero, and one further exchange with a tool_use
\* sub-event has been completed and closed.
C20_Witness ==
    /\ ResumedFromSessionEnd
    /\ JustClosed
    /\ Last(hist.found.lines).total_duration_ms > 0
    /\ ToolCount(Last(hist.found.lines).tools_used, "Read") > 0
    /\ Len(NewExchanges) = 1
    /\ ToolUsesWritten(NewExchanges, "Read") > 0
    /\ Last(CurrentFile).total_duration_ms >
          Last(hist.found.lines).total_duration_ms

\* The highest ordinal among the exchange records of a file, 0 when there
\* is none
HighestOrdinal(lines) ==
    MaxOf({lines[i].exchange :
             i \in {j \in 1..Len(lines) : lines[j].type = "exchange"}})

\* C21: on resumption the exchange counter is set to the highest exchange
\* ordinal among the exchange records of the existing file, for every file
\* an earlier run can leave behind, one whose last line is partial or that
\* has no trailing session_end included.
C21_CounterResumesAtHighestOrdinal ==
    (hist.found.state = "resumed" /\ hist.lastCall.op = "init") =>
        logger.exchangeCount = HighestOrdinal(hist.found.lines)

\* tool_use blocks with the given name in a sequence of events
RECURSIVE ToolUsesObserved(_, _)
ToolUsesObserved(events, n) ==
    IF events = << >> THEN 0
    ELSE ToolUsesIn(Head(events), n) + ToolUsesObserved(Tail(events), n)

\* C22: tool usage is counted when the tool_use block is observed, not at
\* completion: a close() issued by the command-line driver while an exchange
\* is still open writes a session_end whose tools_used holds the tool_use
\* blocks of the completed exchanges and those of the open exchange.
C22_OpenExchangeToolsAreCounted ==
    (JustClosed /\ hist.opened.active) =>
        \A n \in ToolNames :
            ToolCount(Last(CurrentFile).tools_used, n) =
                ToolUsesWritten(ExchangeLines(CurrentFile), n)
                + ToolUsesObserved(hist.opened.events, n)

\* C22 witness: SIGINT arrives while the stream is answering; the open
\* exchange has seen a tool_use block for Read.
C22_Witness ==
    /\ JustClosed
    /\ hist.opened.active
    /\ cli.pc = "exited"
    /\ cli.closes = 1
    /\ ToolUsesObserved(hist.opened.events, "Read") = 1
    /\ ToolCount(Last(CurrentFile).tools_used, "Read") = 1

\* The content blocks of a sequence of events, in arrival order
RECURSIVE BlocksOf(_)
BlocksOf(events) ==
    IF events = << >> THEN << >>
    ELSE Head(events).content \o BlocksOf(Tail(events))

\* A sub-event of an exchange record is the one made from a content block
SubEventOfBlock(msg, block) ==
    \/ /\ block.type = "text"
       /\ msg.source = "assistant"
       /\ msg.type = "text"
       /\ msg.text = block.text
    \/ /\ block.type = "tool_use"
       /\ msg.source = "assistant"
       /\ msg.type = "tool_use"
       /\ msg.tool_use_id = block.id
       /\ msg.name = block.name
    \/ /\ block.type = "tool_result"
       /\ msg.source = "tool"
       /\ msg.type = "result"
       /\ msg.tool_use_id = block.tool_use_id

\* C23: the messages array of an exchange record lists the sub-events in
\* the order their events, and within one event their content blocks, were
\* passed to log(): assistant and tool-result sub-events are interleaved as
\* they arrived.
C23_SubEventsInArrivalOrder ==
    [][ ( /\ SameInstanceCall
          /\ Initialized
          /\ hist.opened.active
          /\ hist'.lastCall.op = "result" ) =>
        LET msgs   == Last(files'[logger.filePath]).messages
            blocks == BlocksOf(hist.opened.events)
        IN  /\ Len(msgs) = Len(blocks)
            /\ \A i \in 1..Len(msgs) : SubEventOfBlock(msgs[i], blocks[i]) ]_vars

\* C23 witness: an exchange record with a tool_use sub-event followed by
\* its tool result, from two events.
C23_Witness ==
    /\ Initialized
    /\ hist.lastCall.op = "result"
    /\ Len(hist.opened.events) = 2
    /\ Last(CurrentFile).type = "exchange"
    /\ Len(Last(CurrentFile).messages) = 2
    /\ Last(CurrentFile).messages[1].type = "tool_use"
    /\ Last(CurrentFile).messages[2].source = "tool"

\* The step from fs to fs2 appends one line of type t to file p and
\* leaves every other file as it was
AppendsOne(fs, fs2, p, t) ==
    /\ p \in DOMAIN fs
    /\ DOMAIN fs2 = DOMAIN fs
    /\ Len(fs2[p]) = Len(fs[p]) + 1
    /\ AllButLast(fs2[p]) = fs[p]
    /\ Last(fs2[p]).type = t
    /\ \A q \in DOMAIN fs \ {p} : fs2[q] = fs[q]

\* The step from fs to fs2 creates one file holding one session_start line
CreatesFile(fs, fs2) ==
    \E p \in DOMAIN fs2 \ DOMAIN fs :
        /\ DOMAIN fs2 = DOMAIN fs \cup {p}
        /\ Len(fs2[p]) = 1
        /\ fs2[p][1].type = "session_start"
        /\ \A q \in DOMAIN fs : fs2[q] = fs[q]

\* The step from fs to fs2 at most takes the trailing session_end line off
\* one file
RemovesTrailingEnd(fs, fs2) ==
    /\ DOMAIN fs2 = DOMAIN fs
    /\ \A p \in DOMAIN fs :
          \/ fs2[p] = fs[p]
          \/ /\ fs[p] # << >>
             /\ Last(fs[p]).type = "session_end"
             /\ fs2[p] = AllButLast(fs[p])

\* C24 as stated: the file changes only at boundary operations; a fresh
\* init appends one session_start, each result event appends exactly one
\* exchange line, each close() appends exactly one session_end, and
\* logUserInput(), assistant events and user events never change the file.
C24_EveryBoundaryCallAppends ==
    [][ LET op == hist'.lastCall.op IN
        /\ op \in {"input", "assistant", "user", "new"} => files' = files
        /\ op = "result" =>
              \E p \in DOMAIN files : AppendsOne(files, files', p, "exchange")
        /\ op = "close" =>
              \E p \in DOMAIN files : AppendsOne(files, files', p, "session_end")
        /\ op = "init" =>
              \/ CreatesFile(files, files')
              \/ RemovesTrailingEnd(files, files') ]_vars

\* C24: the file changes only at boundary operations.  With every append
\* succeeding on whole lines: logUserInput(), assistant events, user events
\* and the creation of an instance leave every file as it is; a result
\* event and a close() on a logger that has seen init append exactly one
\* exchange, respectively session_end, line to its file, and write nothing
\* on a logger that has not; an init for a session without a file creates
\* a file holding one session_start line, and an init for a session with a
\* file at most removes that file's trailing session_end line.
C24_FileChangesOnlyAtBoundaries ==
    [][ LET op == hist'.lastCall.op IN
        /\ op \in {"input", "assistant", "user", "new"} => files' = files
        /\ op = "result" =>
              IF Initialized
              THEN AppendsOne(files, files', logger.filePath, "exchange")
              ELSE files' = files
        /\ op = "close" =>
              IF Initialized
              THEN AppendsOne(files, files', logger.filePath, "session_end")
              ELSE files' = files
        /\ op = "init" =>
              IF findExistingSessionFile(files, hist'.lastCall.arg.session_id)
                    = NoPath
              THEN CreatesFile(files, files')
              ELSE RemovesTrailingEnd(files, files') ]_vars

\* C24 witness: a fresh init, sub-events, one result event and one close()
\* have left a file of three lines.
C24_Witness ==
    /\ JustClosed
    /\ hist.nInst = 1
    /\ hist.found.state = "fresh"
    /\ hist.nInput = 1
    /\ Len(CurrentFile) = 3
    /\ CurrentFile[1].type = "session_start"
    /\ CurrentFile[2].type = "exchange"
    /\ Len(CurrentFile[2].messages) > 0
    /\ CurrentFile[3].type = "session_end"

(***************************************************************************)
(* Several sessions in one sessions directory                              *)
(***************************************************************************)
\* log({type: "system", subtype: "init", ...}) for any of the sessions,
\* when the wall clock reads stamp
LogInitAt ==
    \E id \in AllSessionIds, stamp \in FileStamps :
      LET m == InitMessage(id)
          r == handleSystemMessageAt(logger, files, m, stamp)
          existing == findExistingSessionFile(files, id)
      IN
      /\ logger' = r.lg
      /\ files' = r.fs
      /\ hist' = [hist EXCEPT
            !.phase = IF @ # "uninitialized" THEN @
                      ELSE IF hist.opened.active THEN "accumulating"
                      ELSE "idle",
            !.instClean = @ /\ hist.phase = "uninitialized",
            !.nCalls = Count(hist),
            !.found = IF hist.found.state # "none" THEN @
                      ELSE IF existing = NoPath
                           THEN [state |-> "fresh", lines |-> << >>]
                           ELSE [state |-> "resumed", lines |-> files[existing]],
            !.lastCall = [op |-> "init", arg |-> m, ok |-> TRUE]]

\* Logger instances that receive the init events of several sessions, and
\* write exchange and session_end records.  MaxSessionCalls calls in all.
NextSessions ==
    /\ hist.nCalls < MaxSessionCalls
    /\ \/ NewInstance
       \/ LogInitAt
       \/ LogResult
       \/ Close
    /\ UNCHANGED <<cli, ui>>

SpecSessions == Init /\ [][NextSessions]_vars

\* The session-id prefix in a file name
ShortOf(name) == name[Len(name) - 1]

\* C25: a session maps to a single file: whatever init events the logger
\* instances sharing the sessions directory have received, at most one
\* file exists per 8-character session-id prefix, and every record of a
\* file belongs to a session with the prefix in the file's name, so that
\* sessions with different prefixes never write into the same file.
C25_OneFilePerPrefix ==
    /\ \A p, q \in DOMAIN files : ShortOf(p) = ShortOf(q) => p = q
    /\ \A p \in DOMAIN files :
          \A i \in 1..Len(files[p]) :
              sessionIdShort(files[p][i].session_id) = ShortOf(p)

\* C25 witness: two files, one of them shared by the two sessions with
\* the same prefix, after init events at different instants.
C25_Witness ==
    /\ hist.nInst = 2
    /\ Cardinality(DOMAIN files) = 2
    /\ \E p \in DOMAIN files :
          /\ \E i \in 1..Len(files[p]) : files[p][i].session_id = idA
          /\ \E i \in 1..Len(files[p]) : files[p][i].session_id = idC
    /\ \E p \in DOMAIN files : p[3] # FirstStamp[3]

\* A step takes lines off a file
ShortensAFile ==
    \E p \in DOMAIN files :
        p \in DOMAIN files' /\ Len(files'[p]) < Len(files[p])

\* C26: the removal of the trailing session_end runs only during the
\* resumption step of a logger instance, before that instance has appended
\* any record: a step that takes a line off a file is the first init
\* event the instance receives.
C26_RemovalOnlyAtResumption ==
    [][ ShortensAFile =>
            /\ hist'.lastCall.op = "init"
            /\ hist.found.state = "none" ]_vars

\* The value recorded for a numeric field that may be missing
ZeroIfMissing(x) == IF x = Undefined THEN 0 ELSE x

\* C27: a result event with fields missing is handled without error: the
\* exchange record is written, each missing numeric stat is recorded as 0,
\* and the session totals advance by 0 for each missing field.
C27_MissingStatsAreZero ==
    [][ (hist'.lastCall.op = "result" /\ Initialized) =>
        LET m  == hist'.lastCall.arg
            ex == Last(files'[logger.filePath])
        IN  /\ hist'.lastCall.ok
            /\ Len(files'[logger.filePath]) = Len(CurrentFile) + 1
            /\ ex.type = "exchange"
            /\ DOMAIN ex.stats =
                  {"num_turns", "duration_ms", "duration_api_ms", "tokens_in",
                   "tokens_out", "cache_creation", "cache_read", "cost_usd"}
            /\ ex.stats.num_turns = ZeroIfMissing(m.num_turns)
            /\ ex.stats.duration_ms = ZeroIfMissing(m.duration_ms)
            /\ ex.stats.duration_api_ms = ZeroIfMissing(m.duration_api_ms)
            /\ ex.stats.cost_usd = ZeroIfMissing(m.total_cost_usd)
            /\ ex.stats.tokens_in = ZeroIfMissing(m.usage.input_tokens)
            /\ ex.stats.tokens_out = ZeroIfMissing(m.usage.output_tokens)
            /\ ex.stats.cache_creation =
                  ZeroIfMissing(m.usage.cache_creation_input_tokens)
            /\ ex.stats.cache_read =
                  ZeroIfMissing(m.usage.cache_read_input_tokens)
            /\ logger'.totalDurationMs =
                  logger.totalDurationMs + ZeroIfMissing(m.duration_ms)
            /\ logger'.totalDurationApiMs =
                  logger.totalDurationApiMs + ZeroIfMissing(m.duration_api_ms)
            /\ logger'.totalCostUsd =
                  logger.totalCostUsd + ZeroIfMissing(m.total_cost_usd) ]_vars

\* The totals a session_end record carries
TotalsOf(rec) ==
    [exchanges |-> rec.total_exchanges, ms |-> rec.total_duration_ms,
     api_ms |-> rec.total_duration_api_ms, cost |-> rec.total_cost_usd,
     tokens |-> rec.total_tokens, tools |-> rec.tools_used]

\* C28: close() does not modify the exchange counter, the aggregate
\* totals, the token snapshot, the tool-usage counts or the sub-event
\* buffer; two consecutive close() calls write session_end records with
\* identical totals.
C28_CloseModifiesNothing ==
    [][ hist'.lastCall.op = "close" =>
        /\ logger'.exchangeCount = logger.exchangeCount
        /\ logger'.totalDurationMs = logger.totalDurationMs
        /\ logger'.totalDurationApiMs = logger.totalDurationApiMs
        /\ logger'.totalCostUsd = logger.totalCostUsd
        /\ logger'.lastExchangeTokens = logger.lastExchangeTokens
        /\ logger'.toolsUsed = logger.toolsUsed
        /\ logger'.currentMessages = logger.currentMessages
        /\ (Initialized /\ hist.lastCall.op = "close") =>
              /\ Last(files'[logger.filePath]).type = "session_end"
              /\ Last(CurrentFile).type = "session_end"
              /\ Len(files'[logger.filePath]) = Len(CurrentFile) + 1
              /\ TotalsOf(Last(files'[logger.filePath])) =
                    TotalsOf(Last(CurrentFile)) ]_vars

\* C28 witness: two consecutive close() calls after an exchange with a
\* tool use.
C28_Witness ==
    /\ JustClosed
    /\ Len(CurrentFile) = 4
    /\ CurrentFile[3].type = "session_end"
    /\ CurrentFile[4].type = "session_end"
    /\ CurrentFile[4].total_duration_ms > 0
    /\ CurrentFile[4].total_exchanges > 0
    /\ ToolCount(CurrentFile[4].tools_used, "Read") > 0
    /\ TotalsOf(CurrentFile[3]) = TotalsOf(CurrentFile[4])

\* C29: in every session_end record, total_exchanges equals the number of
\* exchange records present in the file at that point, for any sequence of
\* calls, including logUserInput() calls that never receive a result event
\* and result events that arrive without a logUserInput().
C29_TotalExchangesCountsRecords ==
    JustClosed =>
        Last(CurrentFile).total_exchanges = Len(ExchangeLines(CurrentFile))

\* C30: the ordinal given to an exchange does not depend on whether
\* logUserInput() is called before or after the init event reaches log():
\* in a resumed session whose file's highest ordinal is N, the first
\* exchange of the instance is written with ordinal N+1 in both orders.
C30_OrdinalIndependentOfInitOrder ==
    [][ ( /\ hist'.lastCall.op = "result"
          /\ Initialized
          /\ hist.found.state = "resumed"
          /\ \A i \in 1..Len(hist.found.lines) : ParseOK(hist.found.lines[i])
          /\ hist.nInput = 1
          /\ hist.nPost = 0 ) =>
        Last(files'[logger.filePath]).exchange =
            HighestOrdinal(hist.found.lines) + 1 ]_vars

\* C31: on resumption the session_end record whose totals are loaded is
\* the line that is then removed: after the init step no session_end
\* record remains in the file, and the loaded totals leave out no exchange
\* record of the file.
C31_LoadedSessionEndIsRemoved ==
    ( /\ hist.found.state = "resumed"
      /\ hist.lastCall.op = "init"
      /\ EndLines(hist.found.lines) # << >> ) =>
        /\ EndLines(CurrentFile) = << >>
        /\ logger.totalDurationMs = SumDurationMs(ExchangeLines(hist.found.lines))
        /\ logger.totalCostUsd = SumCostUsd(ExchangeLines(hist.found.lines))

\* C32: every sub-event buffered by log() appears in at most one exchange
\* record.  A result event handled successfully writes the buffer as it
\* is and leaves the buffer, the user input text and the start timestamp
\* empty; assistant and user events only add to the end of the buffer and
\* write nothing; a result event whose append fails writes nothing; every
\* other call leaves the buffer as it is.  So what one result event has
\* written is not in the buffer for a later one.
C32_SubEventsWrittenAtMostOnce ==
    [][ SameInstanceCall =>
        LET op == hist'.lastCall.op IN
        /\ (op = "result" /\ hist'.lastCall.ok) =>
              /\ logger'.currentMessages = << >>
              /\ logger'.currentUserInput = ""
              /\ logger'.exchangeStartTs = ""
              /\ IF Initialized
                 THEN /\ Len(files'[logger.filePath]) = Len(CurrentFile) + 1
                      /\ Last(files'[logger.filePath]).messages =
                            logger.currentMessages
                 ELSE files' = files
        /\ (op = "result" /\ ~hist'.lastCall.ok) => files' = files
        /\ op \in {"assistant", "user"} =>
              /\ IsPrefix(logger.currentMessages, logger'.currentMessages)
              /\ files' = files
        /\ op \in {"init", "input", "close", "other"} =>
              logger'.currentMessages = logger.currentMessages ]_vars

\* C32 witness: one instance has written two exchange records; the tool
\* use of the first is not in the second.
C32_Witness ==
    /\ Initialized
    /\ hist.nInst = 1
    /\ hist.lastCall.op = "result"
    /\ Len(CurrentFile) = 3
    /\ CurrentFile[2].type = "exchange"
    /\ Len(CurrentFile[2].messages) = 1
    /\ CurrentFile[2].messages[1].type = "tool_use"
    /\ CurrentFile[3].type = "exchange"
    /\ Len(CurrentFile[3].messages) = 1
    /\ CurrentFile[3].messages[1].type = "text"
    /\ logger.currentMessages = << >>

(***************************************************************************)
(* The chat interface (components/chat-interface.tsx) reading the stream   *)
(* of the /api/chat route                                                  *)
(*   ui.pc   idle      no handleSubmit call is under way                   *)
(*           fetching  handleSubmit awaits fetch (line 80)                 *)
(*           reading   handleSubmit awaits reader.read() (line 99)         *)
(* State updates of a call are visible to the next render at once; the     *)
(* call itself keeps the sessionId and messages it was created with.       *)
(* The route runs one query() per request (one session), forwards every    *)
(* SDK message as one line, and closes the stream after a result message   *)
(* or after the error record it writes when the query throws.              *)
(***************************************************************************)
ChatSessionIds == {"sid-1", "sid-2"}
ChatTexts == {"hello"}
ChatFailures == {"HTTP error! status: 500", "network error"}

initRecord(id) == [type |-> "system", subtype |-> "init", session_id |-> id]
assistantRecords ==
    { [type |-> "assistant", content |-> <<[type |-> "text", text |-> "hi"]>>],
      [type |-> "assistant",
       content |-> <<[type |-> "tool_use", name |-> "Read"]>>] }
resultRecords ==
    { [type |-> "result", content |-> << >>],
      [type |-> "result", content |-> <<"done">>] }
errorRecords ==
    { [type |-> "error", error |-> "query failed"],
      [type |-> "error", error |-> ""] }

\* The session ids of the init records the stream has delivered so far
InitIdsOf(records) ==
    {records[i].session_id :
        i \in {j \in 1..Len(records) : records[j].type = "system"}}

\* The records the route can write next to the stream of the request
StreamRecords(u) ==
    {initRecord(id) :
        id \in IF InitIdsOf(u.debugMessages) = {} THEN ChatSessionIds
               ELSE InitIdsOf(u.debugMessages)}
    \cup assistantRecords \cup resultRecords \cup errorRecords

userMessage(text) == [role |-> "user", content |-> <<text>>]
assistantMessage(content) == [role |-> "assistant", content |-> content]

\* Lines 74-77: sessionId is part of the body only when there is one.
requestBody(text, sessionId) ==
    IF sessionId # NoSession
    THEN [messages |-> <<userMessage(text)>>, sessionId |-> sessionId]
    ELSE [messages |-> <<userMessage(text)>>]

\* Lines 169-172.
handleSubmitFinally(u) ==
    [u EXCEPT !.isStreaming = FALSE, !.streamingContent = << >>,
              !.pc = "idle"]

\* Lines 160-172: the outer catch, then finally.
handleSubmitCatch(u, message) ==
    handleSubmitFinally(
        [u EXCEPT !.messages =
            Append(u.req.newMessages,
                   assistantMessage(<<"Error: ", message>>))])

\* Variant of extractSessionId that stores the id of every init message.
extractSessionIdAlways(u, message) ==
    IF message.type = "system" /\ message.subtype = "init"
    THEN [u EXCEPT !.sessionId = message.session_id]
    ELSE u

\* Lines 115-118: the sessionId read is the one of the render that created
\* this handleSubmit call.
extractSessionId(u, message) ==
    IF /\ message.type = "system"
       /\ message.subtype = "init"
       /\ u.req.sessionId = NoSession
    THEN [u EXCEPT !.sessionId = message.session_id]
    ELSE u

\* Lines 127-136: one content block of an assistant message.
appendBlock(assistantContent, block) ==
    IF block.type = "text" /\ block.text # ""
    THEN assistantContent \o <<block.text>>
    ELSE IF block.type = "tool_use"
    THEN assistantContent \o <<"\n[Using tool: ", block.name, "]\n">>
    ELSE assistantContent

RECURSIVE appendBlocks(_, _)
appendBlocks(assistantContent, content) ==
    IF content = << >> THEN assistantContent
    ELSE appendBlocks(appendBlock(assistantContent, Head(content)),
                      Tail(content))

\* Lines 121-141.
handleAssistantLine(u, message) ==
    LET c == appendBlocks(u.req.assistantContent, message.content)
    IN  [u EXCEPT !.req.assistantContent = c, !.streamingContent = c]

\* Lines 142-151.
handleResultLine(u, message) ==
    LET shown ==
            IF u.req.assistantContent # << >>
            THEN Append(u.req.newMessages,
                        assistantMessage(u.req.assistantContent))
            ELSE IF message.content # << >>
            THEN Append(u.req.newMessages, assistantMessage(message.content))
            ELSE u.messages
    IN  [u EXCEPT !.messages = shown, !.streamingContent = << >>]

\* Lines 152-157: the Error thrown at line 153 is thrown inside the try
\* block of line 109, whose catch logs it and goes on to the next line.
handleErrorLine(u, message) == u

\* Lines 106-158: one line of the stream.
handleLine(u, message) ==
    LET u1 == [u EXCEPT !.debugMessages = Append(@, message),
                        !.req.closed = message.type \in {"result", "error"}]
        u2 == extractSessionId(u1, message)
    IN  IF message.type = "assistant" THEN handleAssistantLine(u2, message)
        ELSE IF message.type = "result" THEN handleResultLine(u2, message)
        ELSE IF message.type = "error" THEN handleErrorLine(u2, message)
        ELSE u2

\* handleSubmit up to the fetch (lines 57-84)
ChatSubmit ==
    \E text \in ChatTexts :
      /\ ui.pc = "idle"
      /\ ~ui.isStreaming
      /\ Len(ui.sentMessages) < MaxRequests
      /\ ui' = [ui EXCEPT
            !.messages = Append(@, userMessage(text)),
            !.isStreaming = TRUE,
            !.streamingContent = << >>,
            !.debugMessages = << >>,
            !.sentMessages = Append(@, requestBody(text, ui.sessionId)),
            !.pc = "fetching",
            !.req = [NoRequest EXCEPT
                        !.sessionId = ui.sessionId,
                        !.newMessages = Append(ui.messages, userMessage(text))]]

\* fetch rejects, or the response is not ok (lines 80-92)
ChatFetchFails ==
    \E message \in ChatFailures :
      /\ ui.pc = "fetching"
      /\ ui' = handleSubmitCatch(ui, message)

\* The response arrives and the reader is taken (lines 86-96)
ChatResponse ==
    /\ ui.pc = "fetching"
    /\ ui' = [ui EXCEPT !.pc = "reading"]

\* reader.read() delivers one line (lines 98-158)
ChatLine ==
    \E message \in StreamRecords(ui) :
      /\ ui.pc = "reading"
      /\ ~ui.req.closed
      /\ Len(ui.debugMessages) < MaxRecords
      /\ ui' = handleLine(ui, message)

\* reader.read() reports the end of the stream (line 100), then finally
ChatStreamDone ==
    /\ ui.pc = "reading"
    /\ ui' = handleSubmitFinally(ui)

\* reader.read() rejects: the connection broke before the stream was closed
ChatReadFails ==
    /\ ui.pc = "reading"
    /\ ~ui.req.closed
    /\ ui' = handleSubmitCatch(ui, "network error")

NextChat ==
    /\ \/ ChatSubmit
       \/ ChatFetchFails
       \/ ChatResponse
       \/ ChatLine
       \/ ChatStreamDone
       \/ ChatReadFails
    /\ UNCHANGED <<files, logger, hist, cli>>

SpecChat == Init /\ [][NextChat]_vars

\* The error records the stream of the request has delivered
ErrorsDelivered ==
    SelectSeq(ui.debugMessages, LAMBDA r : r.type = "error")

\* C33: when the /api/chat stream delivers a record of type "error", the
\* chat interface ends the request by showing an assistant message of the
\* form "Error: <error text>" and returns to the non-streaming state.
C33_ErrorRecordIsShown ==
    (ui.pc = "idle" /\ ErrorsDelivered # << >>) =>
        /\ ~ui.isStreaming
        /\ ui.messages # << >>
        /\ Last(ui.messages).role = "assistant"
        /\ Last(ui.messages).content[1] = "Error: "

\* The step delivers an init message to the chat interface
InitDelivered ==
    /\ Len(ui'.debugMessages) = Len(ui.debugMessages) + 1
    /\ Last(ui'.debugMessages).type = "system"
    /\ Last(ui'.debugMessages).subtype = "init"

\* The step sends a request
RequestSent == Len(ui'.sentMessages) = Len(ui.sentMessages) + 1

\* C34: in the chat interface the session id is taken from the first init
\* message received and is never replaced by a later init message; every
\* request sent after it has been stored includes that sessionId, and a
\* request sent before any init has been received carries none.
C34_SessionIdIsTheFirstInit ==
    [][ /\ IF ui.sessionId # NoSession
           THEN ui'.sessionId = ui.sessionId
           ELSE IF InitDelivered
           THEN ui'.sessionId = Last(ui'.debugMessages).session_id
           ELSE ui'.sessionId = NoSession
        /\ RequestSent =>
              IF ui.sessionId # NoSession
              THEN /\ "sessionId" \in DOMAIN Last(ui'.sentMessages)
                   /\ Last(ui'.sentMessages).sessionId = ui.sessionId
              ELSE "sessionId" \notin DOMAIN Last(ui'.sentMessages) ]_vars

\* C34 witness: the first request carried no sessionId and its stream
\* delivered the init of session sid-1; the second request carried sid-1,
\* its stream delivered the init of another session, and sid-1 is kept.
C34_Witness ==
    /\ Len(ui.sentMessages) = 2
    /\ "sessionId" \notin DOMAIN ui.sentMessages[1]
    /\ "sessionId" \in DOMAIN ui.sentMessages[2]
    /\ ui.sentMessages[2].sessionId = "sid-1"
    /\ InitIdsOf(ui.debugMessages) = {"sid-2"}
    /\ ui.sessionId = "sid-1"

(***************************************************************************)
(* Events with incomplete content blocks                                   *)
(***************************************************************************)
\* Events with a tool_use block that has no id or no name, a text block
\* with empty text, a tool_result block without tool_use_id, and an event
\* with an incomplete block followed by a complete one.
IncompleteMsgs ==
    { [type |-> "assistant",
       content |-> <<[toolUseBlock("Read") EXCEPT !.id = ""]>>],
      [type |-> "assistant", content |-> <<toolUseBlock("")>>],
      [type |-> "assistant", content |-> <<[type |-> "text", text |-> ""]>>],
      [type |-> "assistant",
       content |-> <<[toolUseBlock("Write") EXCEPT !.id = ""], textBlock>>],
      [type |-> "user",
       content |-> <<[toolResultBlock EXCEPT !.tool_use_id = ""]>>] }

\* log(assistant or user message with an incomplete content block)
LogIncompleteEvent ==
    \E m \in IncompleteMsgs :
      LET r == log(logger, files, m) IN
      /\ Len(r.lg.currentMessages) <= MaxMsgs
      /\ logger' = r.lg
      /\ files' = r.fs
      /\ hist' = [hist EXCEPT
            !.instClean = @ /\ hist.phase = "accumulating",
            !.nCalls = Count(hist),
            !.opened = IF @.active THEN [@ EXCEPT !.events = Append(@, m)] ELSE @,
            !.lastCall = [op |-> m.type, arg |-> m, ok |-> TRUE]]

\* Any caller that also passes events with incomplete content blocks.
\* MaxBlockCalls calls in all.
NextBlocks ==
    /\ hist.nCalls < MaxBlockCalls
    /\ \/ LogInit
       \/ LogUserInput
       \/ LogSubEvent
       \/ LogIncompleteEvent
       \/ LogResult
    /\ UNCHANGED <<cli, ui>>

SpecBlocks == Init /\ [][NextBlocks]_vars

\* A content block carries what its sub-event needs
Complete(block) ==
    \/ block.type = "text" /\ block.text # ""
    \/ block.type = "tool_use" /\ block.id # "" /\ block.name # ""
    \/ block.type = "tool_result" /\ block.tool_use_id # ""

CompleteBlocks(m) == SelectSeq(m.content, Complete)

\* Complete tool_use blocks of an event with the given name
CompleteToolUses(m, n) ==
    Len(SelectSeq(CompleteBlocks(m),
                  LAMBDA b : b.type = "tool_use" /\ b.name = n))

\* C35: a tool_use block lacking an id or a name, a text block with empty
\* text and a tool_result block lacking tool_use_id are each skipped: an
\* event buffers one sub-event per complete block, in order, and counts
\* one use per complete tool_use block, and nothing for the others; a
\* tool_use with no matching tool_result is written as it is by the result
\* event, and no call raises an error.
C35_IncompleteBlocksAreSkipped ==
    [][ SameInstanceCall =>
        LET op == hist'.lastCall.op
            m  == hist'.lastCall.arg
        IN
        /\ hist'.lastCall.ok
        /\ op \in {"assistant", "user"} =>
            LET new == SubSeq(logger'.currentMessages,
                              Len(logger.currentMessages) + 1,
                              Len(logger'.currentMessages))
                blocks == CompleteBlocks(m)
            IN  /\ IsPrefix(logger.currentMessages, logger'.currentMessages)
                /\ Len(new) = Len(blocks)
                /\ \A i \in 1..Len(new) : SubEventOfBlock(new[i], blocks[i])
                /\ DOMAIN logger'.toolsUsed \subseteq ToolNames
                /\ \A n \in ToolNames :
                      ToolCount(logger'.toolsUsed, n) =
                          ToolCount(logger.toolsUsed, n) + CompleteToolUses(m, n)
                /\ files' = files
        /\ (op = "result" /\ Initialized) =>
              Last(files'[logger.filePath]).messages = logger.currentMessages
      ]_vars

\* C35 witness: an exchange in which a tool_use block without id and a
\* complete tool_use block were logged and no tool result arrived: the
\* record holds the one tool_use sub-event, counted once.
C35_Witness ==
    /\ Initialized
    /\ hist.lastCall.op = "result"
    /\ Len(hist.opened.events) = 2
    /\ hist.opened.events[1] \in IncompleteMsgs
    /\ hist.opened.events[2].content = <<toolUseBlock("Read")>>
    /\ Last(CurrentFile).type = "exchange"
    /\ Len(Last(CurrentFile).messages) = 1
    /\ Last(CurrentFile).messages[1].type = "tool_use"
    /\ ToolCount(logger.toolsUsed, "Read") = 1
    /\ ToolCount(logger.toolsUsed, "Write") = 0

====
